---- MODULE Spec2Model ----
(***************************************************************************)
(* A model of src/main.py: the command-line tool that randomly permutes    *)
(* the columns or the rows of a delimited file.                            *)
(*                                                                         *)
(* One run of main() is modelled.  The input file is revealed record by    *)
(* record as the csv reader yields it; in_rows is the list of data records *)
(* the reader has yielded so far and out the list of records the writer    *)
(* has written.  random.shuffle is a nondeterministic choice of a          *)
(* permutation.  Positions are 0-based as in the source; a TLA+ sequence   *)
(* s holds source position i at s[i + 1].  The log is the sequence of the  *)
(* logging calls made, each named by the source line that makes it.        *)
(***************************************************************************)
EXTENDS Integers, Sequences, FiniteSets

\* ---------------------------------------------------------------- bounds
MaxCols == 3
MaxRows == 2
MaxTokens == 2

\* ---------------------------------------------------------- input domains
\* Python's None, for args.encoding and the detector's result.
None == "<None>"

\* Header names: plain names and one name that is an integer literal.
Names == {"a", "1"}

\* Exclusion tokens after main's split/strip/filter (line 219): a name, an
\* integer literal that is also a header name, a negative integer literal,
\* and a name no header has.
Tokens == {"a", "1", "-1", "zz"}

\* Row tags: a data record of tag t and length L is <<t1, ..., tL>>.
Cells == [x |-> <<"x1", "x2", "x3", "x4", "x5">>,
          y |-> <<"y1", "y2", "y3", "y4", "y5">>]

Tags == {"x", "y"}

SeqsUpTo(S, n) == UNION {[1..k -> S] : k \in 0..n}

\* The first record of a non-empty input; a blank first line gives <<>>.
Headers == SeqsUpTo(Names, MaxCols)

Row(t, L) == [i \in 1..L |-> Cells[t][i]]

\* The records the reader can yield after a header of n fields: records of
\* the header's width of either tag, a record one field short and a record
\* one field long.
Rows(n) == {Row(t, n) : t \in Tags} \cup {Row("x", L) : L \in {n - 1, n + 1} \cap Nat}

TokenLists == SeqsUpTo(Tokens, MaxTokens)

\* ------------------------------------------------------------- variables
VARIABLES
    pc,               \* position of the run
    argv_encoding,    \* --encoding as given on the command line
    permute_rows,     \* args.permute_rows
    exclude_columns,  \* main's exclude_columns; <<>> stands for None
    encoding,         \* args.encoding
    detector,         \* what detect_encoding did
    exit_code,        \* process exit status
    out_state,        \* the output path: "untouched" or "truncated"
    header,           \* header = next(reader)
    exclude_indices,  \* permute_columns' exclude_indices
    permute_indices,  \* permute_columns' permute_indices
    in_rows,          \* data records yielded by the reader so far
    out,              \* records written to the output so far
    log               \* logging calls made so far

vars == <<pc, argv_encoding, permute_rows, exclude_columns, encoding, detector,
          exit_code, out_state, header, exclude_indices, permute_indices,
          in_rows, out, log>>


\* ------------------------------------------------------ python primitives
\* int(col) on the tokens of the model: which tokens parse, and to what.
ParsesAsInt(col) == col \in {"1", "-1"}

IntValue(col) == IF col = "1" THEN 1 ELSE -1

\* header.index(col): the first position holding col (0-based).
HeaderHas(hdr, col) == \E i \in 1..Len(hdr) : hdr[i] = col

HeaderIndex(hdr, col) ==
    (CHOOSE i \in 1..Len(hdr) :
        hdr[i] = col /\ \A j \in 1..(i - 1) : hdr[j] # col) - 1

\* The outcomes of random.shuffle on a list of k elements.
Perms(k) == {p \in [1..k -> 1..k] : \A i, j \in 1..k : p[i] = p[j] => i = j}

Shuffled(s, p) == [i \in 1..Len(s) |-> s[p[i]]]

\* ------------------------------------------------------- column resolver
\* A resolver that retries an out-of-range integer token as a header name.
ResolveToken_RetryAsName(hdr, acc, col) ==
    IF ParsesAsInt(col) /\ 0 <= IntValue(col) /\ IntValue(col) < Len(hdr)
    THEN [acc EXCEPT !.idx = @ \cup {IntValue(col)}]
    ELSE IF HeaderHas(hdr, col)
         THEN [acc EXCEPT !.idx = @ \cup {HeaderIndex(hdr, col)}]
         ELSE [acc EXCEPT !.log = Append(@, "warn_name_not_found")]

\* One iteration of the loop over exclude_columns; acc is the pair of
\* exclude_indices and the warnings logged so far.
ResolveToken(hdr, acc, col) ==
    IF ParsesAsInt(col)
    THEN LET index == IntValue(col) IN
         IF 0 <= index /\ index < Len(hdr)
         THEN [acc EXCEPT !.idx = @ \cup {index}]
         ELSE [acc EXCEPT !.log = Append(@, "warn_invalid_index")]
    ELSE IF HeaderHas(hdr, col)
         THEN [acc EXCEPT !.idx = @ \cup {HeaderIndex(hdr, col)}]
         ELSE [acc EXCEPT !.log = Append(@, "warn_name_not_found")]

RECURSIVE ResolveLoop(_, _, _)
ResolveLoop(hdr, cols, acc) ==
    IF cols = <<>> THEN acc
    ELSE ResolveLoop(hdr, Tail(cols), ResolveToken(hdr, acc, Head(cols)))

ResolveExclude(hdr, cols) == ResolveLoop(hdr, cols, [idx |-> {}, log |-> <<>>])

\* ---------------------------------------------------- permutation engine
\* [i for i in range(num_columns) if i not in exclude_indices]
PermuteIndicesExcluding(n, excl) ==
    LET Keep(i) == i \notin excl
    IN  SelectSeq([i \in 1..n |-> i - 1], Keep)

\* A loop that never advances permute_index.
PermuteIndexAt_Stuck(i, excl) == 0

\* The value permute_index has when the loop reaches position i (0-based):
\* the number of non-excluded positions before i.
PermuteIndexAt(i, excl) == Cardinality({j \in 0..(i - 1) : j \notin excl})

\* Lines 121-131: excluded positions keep the header's value, the others
\* consume permuted_columns in order.
PermutedHeaderExcluding(hdr, excl, permuted_columns) ==
    [k \in 1..Len(hdr) |->
        IF (k - 1) \in excl THEN hdr[k]
        ELSE permuted_columns[PermuteIndexAt(k - 1, excl) + 1]]

\* Line 138: [header[i] for i in permute_indices]
PermutedHeaderSimple(hdr, pidx) == [k \in 1..Len(pidx) |-> hdr[pidx[k] + 1]]

\* A row loop without the exclusion branch: every row is remapped as in the
\* run without exclusions.
PermutedRow_SimpleOnly(row, excl_cols, excl, pidx) ==
    [k \in 1..Len(pidx) |-> row[pidx[k] + 1]]

\* Lines 148-164: the record written for a data record of the header's width.
PermutedRow(row, excl_cols, excl, pidx) ==
    IF excl_cols # <<>>
    THEN LET row_values == [k \in 1..Len(pidx) |-> row[pidx[k] + 1]]
         IN  [k \in 1..Len(row) |->
                IF (k - 1) \in excl THEN row[k]
                ELSE row_values[PermuteIndexAt(k - 1, excl) + 1]]
    ELSE [k \in 1..Len(pidx) |-> row[pidx[k] + 1]]

\* A writer that puts each record before the ones already written.
WriteRow_Prepend(o, record) == <<record>> \o o

\* writer.writerow(record)
WriteRow(o, record) == Append(o, record)

\* ------------------------------------------------------------------ main
\* --encoding: absent, the empty string, or an encoding name.
ArgvEncodings == {None, "", "latin-1"}

\* Python's truth value of args.encoding.
Truthy(e) == e \notin {None, ""}

InitWith(encodings, token_lists) ==
    /\ pc = "main"
    /\ argv_encoding \in encodings
    /\ permute_rows \in BOOLEAN
    /\ exclude_columns \in token_lists
    /\ encoding = argv_encoding
    /\ detector = "not_run"
    /\ exit_code = 0
    /\ out_state = "untouched"
    /\ header = <<>>
    /\ exclude_indices = {}
    /\ permute_indices = <<>>
    /\ in_rows = <<>>
    /\ out = <<>>
    /\ log = <<>>

Init == InitWith(ArgvEncodings, TokenLists)

\* detect_encoding: the detector names an encoding, reports none, or the
\* read raises, which is logged and reported as None.
DetectOutcomes == {"detected", "unknown", "raised"}

DetectResult(outcome) == IF outcome = "detected" THEN "ascii" ELSE None

DetectLog(outcome) == IF outcome = "raised" THEN <<"err_detect">> ELSE <<>>

\* A main without the utf-8 fallback.
FallbackEncoding_None(detected) == detected

\* main, lines 207-213: the encoding main goes on with after detection.
FallbackEncoding(detected) == IF Truthy(detected) THEN detected ELSE "utf-8"

\* main, lines 206-213.
ResolveEncoding ==
    /\ pc = "main"
    /\ IF Truthy(encoding)
       THEN UNCHANGED <<encoding, detector, log>>
       ELSE \E outcome \in DetectOutcomes :
               /\ detector' = outcome
               /\ encoding' = FallbackEncoding(DetectResult(outcome))
               /\ log' = log \o DetectLog(outcome) \o
                         (IF Truthy(DetectResult(outcome))
                          THEN <<"info_detected">>
                          ELSE <<"warn_detect_failed">>)
    /\ pc' = "validate"
    /\ UNCHANGED <<argv_encoding, permute_rows, exclude_columns, exit_code,
                   out_state, header, exclude_indices, permute_indices,
                   in_rows, out>>

\* validate_input: the open of the input path succeeds or raises.
ValidateOutcomes == {"ok", "not_found", "open_error"}

\* A main that goes on whatever validate_input returned.
AfterValidate_Ignored(valid, rows_mode) ==
    IF rows_mode THEN "rows_open" ELSE "cols_open"

\* main, lines 216-225: where main goes once validate_input has returned.
AfterValidate(valid, rows_mode) ==
    IF ~valid THEN "exited"
    ELSE IF rows_mode THEN "rows_open" ELSE "cols_open"

\* main, lines 216-225, with validate_input.
ValidateInput ==
    /\ pc = "validate"
    /\ \E outcome \in ValidateOutcomes :
          /\ pc' = AfterValidate(outcome = "ok", permute_rows)
          /\ exit_code' = IF pc' = "exited" THEN 1 ELSE exit_code
          /\ log' = IF outcome = "ok" THEN log
                    ELSE Append(log, IF outcome = "not_found"
                                     THEN "err_not_found" ELSE "err_open")
    /\ UNCHANGED <<argv_encoding, permute_rows, exclude_columns, encoding,
                   detector, out_state, header, exclude_indices,
                   permute_indices, in_rows, out>>

\* ------------------------------------------------------- permute_columns
\* An except clause that also fails the process.
HandleException_Exit(msg) ==
    /\ pc' = "done"
    /\ log' = Append(log, msg)
    /\ exit_code' = 1
    /\ UNCHANGED out_state

\* What the except clause of either function does: it logs and returns; the
\* output stays as the writer left it.
HandleException(msg) ==
    /\ pc' = "done"
    /\ log' = Append(log, msg)
    /\ UNCHANGED <<exit_code, out_state>>

\* Line 88: both files are opened; the output is created or truncated.
PermuteColumnsOpen ==
    /\ pc = "cols_open"
    /\ \/ /\ pc' = "cols_header"
          /\ out_state' = "truncated"
          /\ out' = <<>>
          /\ UNCHANGED <<exit_code, log>>
       \/ HandleException("err_columns") /\ UNCHANGED out
    /\ UNCHANGED <<argv_encoding, permute_rows, exclude_columns, encoding,
                   detector, header, exclude_indices, permute_indices, in_rows>>

\* Lines 92-140: the header is read, the exclusions resolved, the shuffle
\* drawn and the new header written.  An empty input raises StopIteration.
PermuteColumnsHeader ==
    /\ pc = "cols_header"
    /\ \/ /\ HandleException("err_columns")
          /\ UNCHANGED <<out, header, exclude_indices, permute_indices>>
       \/ \E hdr \in Headers :
             /\ header' = hdr
             /\ IF exclude_columns # <<>>
                THEN LET res == ResolveExclude(hdr, exclude_columns)
                         pidx == PermuteIndicesExcluding(Len(hdr), res.idx)
                         cols == [k \in 1..Len(pidx) |-> hdr[pidx[k] + 1]]
                     IN  \E p \in Perms(Len(pidx)) :
                            /\ exclude_indices' = res.idx
                            /\ permute_indices' = pidx
                            /\ log' = log \o res.log
                            /\ out' = WriteRow(out,
                                  PermutedHeaderExcluding(hdr, res.idx, Shuffled(cols, p)))
                ELSE \E p \in Perms(Len(hdr)) :
                        /\ permute_indices' = Shuffled([i \in 1..Len(hdr) |-> i - 1], p)
                        /\ out' = WriteRow(out, PermutedHeaderSimple(hdr, permute_indices'))
                        /\ UNCHANGED <<exclude_indices, log>>
             /\ pc' = "cols_rows"
             /\ UNCHANGED <<exit_code, out_state>>
    /\ UNCHANGED <<argv_encoding, permute_rows, exclude_columns, encoding,
                   detector, in_rows>>

\* Lines 143-167, one iteration: the reader yields a record, which is
\* skipped with a warning or remapped and written.
PermuteColumnsRow ==
    /\ pc = "cols_rows"
    /\ Len(in_rows) < MaxRows
    /\ \E row \in Rows(Len(header)) :
          /\ in_rows' = Append(in_rows, row)
          /\ IF Len(row) # Len(header)
             THEN /\ log' = Append(log, "warn_row_skipped")
                  /\ out' = out
             ELSE /\ out' = WriteRow(out, PermutedRow(row, exclude_columns,
                                                      exclude_indices, permute_indices))
                  /\ log' = log
    /\ UNCHANGED <<pc, argv_encoding, permute_rows, exclude_columns, encoding,
                   detector, exit_code, out_state, header, exclude_indices,
                   permute_indices>>

\* Line 170: the reader is exhausted, the files are closed.
PermuteColumnsFinish ==
    /\ pc = "cols_rows"
    /\ pc' = "done"
    /\ log' = Append(log, "info_columns_ok")
    /\ UNCHANGED <<argv_encoding, permute_rows, exclude_columns, encoding,
                   detector, exit_code, out_state, header, exclude_indices,
                   permute_indices, in_rows, out>>

\* Lines 172-173: a read or a write raises inside the row loop.
PermuteColumnsFail ==
    /\ pc = "cols_rows"
    /\ HandleException("err_columns")
    /\ UNCHANGED out
    /\ UNCHANGED <<argv_encoding, permute_rows, exclude_columns, encoding,
                   detector, header, exclude_indices, permute_indices, in_rows>>

\* ---------------------------------------------------------- permute_rows
\* Line 182.
PermuteRowsOpen ==
    /\ pc = "rows_open"
    /\ \/ /\ pc' = "rows_header"
          /\ out_state' = "truncated"
          /\ out' = <<>>
          /\ UNCHANGED <<exit_code, log>>
       \/ HandleException("err_rows") /\ UNCHANGED out
    /\ UNCHANGED <<argv_encoding, permute_rows, exclude_columns, encoding,
                   detector, header, exclude_indices, permute_indices, in_rows>>

\* Lines 186-187: the header is read and written as it is.
PermuteRowsHeader ==
    /\ pc = "rows_header"
    /\ \/ /\ HandleException("err_rows")
          /\ UNCHANGED <<out, header>>
       \/ \E hdr \in Headers :
             /\ header' = hdr
             /\ out' = WriteRow(out, hdr)
             /\ pc' = "rows_body"
             /\ UNCHANGED <<exit_code, out_state, log>>
    /\ UNCHANGED <<argv_encoding, permute_rows, exclude_columns, encoding,
                   detector, exclude_indices, permute_indices, in_rows>>

\* A shuffle that draws with replacement.
ShuffledRows_WithReplacement(rows, p) == [i \in 1..Len(rows) |-> rows[p[1]]]

\* Line 190: the buffered rows after random.shuffle.
ShuffledRows(rows, p) == Shuffled(rows, p)

\* Lines 189-194: the remaining records are buffered, shuffled and written.
\* The write may raise after any number of records.
PermuteRowsBody ==
    /\ pc = "rows_body"
    /\ \/ /\ HandleException("err_rows")
          /\ UNCHANGED <<out, in_rows>>
       \/ \E rows \in SeqsUpTo(Rows(Len(header)), MaxRows) :
          \E p \in Perms(Len(rows)) :
          \E written \in 0..Len(rows) :
             /\ in_rows' = rows
             /\ out' = out \o SubSeq(ShuffledRows(rows, p), 1, written)
             /\ IF written = Len(rows)
                THEN /\ pc' = "done"
                     /\ log' = Append(log, "info_rows_ok")
                     /\ UNCHANGED <<exit_code, out_state>>
                ELSE HandleException("err_rows")
    /\ UNCHANGED <<argv_encoding, permute_rows, exclude_columns, encoding,
                   detector, header, exclude_indices, permute_indices>>

Next ==
    \/ ResolveEncoding
    \/ ValidateInput
    \/ PermuteColumnsOpen
    \/ PermuteColumnsHeader
    \/ PermuteColumnsRow
    \/ PermuteColumnsFinish
    \/ PermuteColumnsFail
    \/ PermuteRowsOpen
    \/ PermuteRowsHeader
    \/ PermuteRowsBody

Spec == Init /\ [][Next]_vars

\* Runs given --encoding, over every exclusion list.  permute_rows takes the
\* list and never reads it: row-mode runs get the lists of at most one token.
InitEngine ==
    /\ InitWith({"latin-1"}, TokenLists)
    /\ permute_rows => Len(exclude_columns) <= 1

SpecEngine == InitEngine /\ [][Next]_vars

\* Runs without --exclude_columns, over every --encoding.
InitMain == InitWith(ArgvEncodings, {<<>>})

SpecMain == InitMain /\ [][Next]_vars


\* ---------------------------------------------------------------- claims
Range(s) == {s[k] : k \in 1..Len(s)}

\* The run is a column-mode (row-mode) run that has written its header.
ColumnsHeaderWritten == ~permute_rows /\ out # <<>>

RowsHeaderWritten == permute_rows /\ out # <<>>

\* The input records read so far that have the header's field count.
Kept ==
    LET SameWidth(r) == Len(r) = Len(header)
    IN  SelectSeq(in_rows, SameWidth)

\* The number of positions among pos at which s holds v.
Count(s, pos, v) == Cardinality({k \in pos : k \in DOMAIN s /\ s[k] = v})

\* s and t hold the same multiset of values at the positions pos.
SameBagAt(s, t, pos) ==
    \A v \in {s[k] : k \in pos \cap DOMAIN s} \cup {t[k] : k \in pos \cap DOMAIN t} :
        Count(s, pos, v) = Count(t, pos, v)

\* The 1-based positions of the header that are not excluded.
FreePositions == {k \in 1..Len(header) : (k - 1) \notin exclude_indices}

\* C1: in column mode one mapping pi of positions carries the header to the
\* output header and every kept input row to its output row.
C1_OneMappingForHeaderAndRows ==
    ColumnsHeaderWritten =>
        \E pi \in [1..Len(header) -> 1..Len(header)] :
            /\ Len(out[1]) = Len(header)
            /\ \A d \in 1..Len(header) : out[1][d] = header[pi[d]]
            /\ \A k \in 2..Len(out) :
                  /\ k - 1 <= Len(Kept)
                  /\ Len(out[k]) = Len(header)
                  /\ \A d \in 1..Len(header) : out[k][d] = Kept[k - 1][pi[d]]

\* C2: in column mode every excluded position holds, in the output header
\* and in every written row, the value the input holds there.
C2_ExcludedPositionsFixed ==
    ColumnsHeaderWritten =>
        /\ Len(out) - 1 = Len(Kept)
        /\ \A p \in exclude_indices :
              /\ p + 1 \in DOMAIN out[1]
              /\ out[1][p + 1] = header[p + 1]
              /\ \A k \in 2..Len(out) :
                    /\ p + 1 \in DOMAIN out[k]
                    /\ out[k][p + 1] = Kept[k - 1][p + 1]

C2_Witness ==
    /\ ColumnsHeaderWritten
    /\ exclude_indices # {}
    /\ out[1] # header
    /\ Len(out) >= 2

\* C3: in column mode the output header and every written row hold, at the
\* non-excluded positions, the same multiset of values as their input.
C3_ShuffleKeepsMultiset ==
    ColumnsHeaderWritten =>
        /\ Len(out) - 1 = Len(Kept)
        /\ Len(out[1]) = Len(header)
        /\ SameBagAt(out[1], header, FreePositions)
        /\ \A k \in 2..Len(out) :
              /\ Len(out[k]) = Len(header)
              /\ SameBagAt(out[k], Kept[k - 1], FreePositions)

C3_Witness ==
    /\ ColumnsHeaderWritten
    /\ \E i, j \in FreePositions : i # j /\ header[i] = header[j]
    /\ out[1] # header
    /\ Len(out) >= 2
    /\ out[2] # Kept[1]

\* C4: in row mode the first output record is the input header unchanged,
\* and a run that ends well has written exactly the multiset of the input
\* data rows, whatever exclusion list was given.
C4_RowsKeepHeaderAndMultiset ==
    RowsHeaderWritten =>
        /\ out[1] = header
        /\ (pc = "done" /\ log # <<>> /\ log[Len(log)] = "info_rows_ok") =>
              /\ Len(out) - 1 = Len(in_rows)
              /\ \A r \in Range(in_rows) \cup Range(Tail(out)) :
                    Cardinality({k \in 1..Len(in_rows) : in_rows[k] = r})
                      = Cardinality({k \in 2..Len(out) : out[k] = r})

C4_Witness ==
    /\ RowsHeaderWritten
    /\ pc = "done"
    /\ exclude_columns # <<>>
    /\ log[Len(log)] = "info_rows_ok"
    /\ Len(in_rows) = 2
    /\ in_rows[1] # in_rows[2]
    /\ out[2] = in_rows[2]
    /\ out[3] = in_rows[1]

\* C5: in every run, column mode and row mode alike, every data row written
\* has the header's field count.
C5_WrittenRowsHaveHeaderWidth ==
    out # <<>> => \A k \in 2..Len(out) : Len(out[k]) = Len(header)

\* C6: the resolver yields exactly the positions of the in-range integer
\* tokens and the first header position of each other token; a token that
\* resolves to nothing is logged once and the header is still written.
UnresolvedTokens ==
    {k \in 1..Len(exclude_columns) :
        IF ParsesAsInt(exclude_columns[k])
        THEN ~(0 <= IntValue(exclude_columns[k])
                 /\ IntValue(exclude_columns[k]) < Len(header))
        ELSE exclude_columns[k] \notin Range(header)}

ResolverWarnings ==
    {k \in 1..Len(log) : log[k] \in {"warn_invalid_index", "warn_name_not_found"}}

C6_ResolverPositionSet ==
    /\ ColumnsHeaderWritten =>
          /\ exclude_indices \subseteq 0..(Len(header) - 1)
          /\ \A i \in 0..(Len(header) - 1) :
                i \in exclude_indices <=>
                   \E t \in Range(exclude_columns) :
                      \/ ParsesAsInt(t) /\ IntValue(t) = i
                      \/ /\ ~ParsesAsInt(t)
                         /\ header[i + 1] = t
                         /\ \A j \in 1..i : header[j] # t
          /\ Cardinality(ResolverWarnings) = Cardinality(UnresolvedTokens)
    /\ ResolverWarnings # {} => ColumnsHeaderWritten

C6_Witness ==
    /\ ColumnsHeaderWritten
    /\ header = <<"1", "a", "a">>
    /\ exclude_columns = <<"a", "-1">>
    /\ exclude_indices = {1}
    /\ pc = "done"
    /\ log[Len(log)] = "info_columns_ok"

\* C7: when the validator fails the process exits non-zero and the output
\* is never touched; the output is only touched once validation succeeded.
ValidatorFailed == \E k \in 1..Len(log) : log[k] \in {"err_not_found", "err_open"}

C7_ValidationFailureLeavesOutput ==
    /\ ValidatorFailed => pc = "exited" /\ exit_code # 0
    /\ pc = "exited" => out_state = "untouched" /\ out = <<>>
    /\ out_state # "untouched" => ~ValidatorFailed /\ pc \notin {"main", "validate", "exited"}

C7_Witness ==
    /\ pc = "exited"
    /\ ValidatorFailed
    /\ exit_code = 1
    /\ out_state = "untouched"

\* C8: a supplied encoding is used without running the detector; without
\* one the detector runs and its failure falls back to utf-8 with a warning
\* and is never fatal; the encoding main goes on with is never empty.
C8_EncodingResolution ==
    pc # "main" =>
        /\ Truthy(encoding)
        /\ Truthy(argv_encoding) => detector = "not_run" /\ encoding = argv_encoding
        /\ ~Truthy(argv_encoding) => detector # "not_run"
        /\ detector \in {"unknown", "raised"} =>
              /\ encoding = "utf-8"
              /\ \E k \in 1..Len(log) : log[k] = "warn_detect_failed"
        /\ exit_code # 0 => ValidatorFailed

C8_Witness ==
    /\ detector = "raised"
    /\ encoding = "utf-8"
    /\ pc = "done"
    /\ log[Len(log)] = "info_columns_ok"

\* C9: in column mode the output is the new header followed by one record
\* for each input row of the header's width, in input order.
C9_ColumnsKeepRowOrder ==
    ColumnsHeaderWritten =>
        /\ Len(out[1]) = Len(header)
        /\ SameBagAt(out[1], header, 1..Len(header))
        /\ Len(out) - 1 = Len(Kept)
        /\ \A k \in 2..Len(out) :
              /\ Len(out[k]) = Len(header)
              /\ SameBagAt(out[k], Kept[k - 1], 1..Len(header))

C9_Witness ==
    /\ ColumnsHeaderWritten
    /\ Len(in_rows) = 2
    /\ Len(out) = 3
    /\ Len(header) >= 2
    /\ in_rows[1] # in_rows[2]
    /\ out[1] # header

\* C10: an exception inside permute_columns or permute_rows is logged and
\* the function returns: the exit status stays zero, no success is logged,
\* and the output keeps what was written before the failure.
PermuteErrors == {"err_columns", "err_rows"}

PermuteFailed == \E k \in 1..Len(log) : log[k] \in PermuteErrors

IsPrefix(s, t) == Len(s) <= Len(t) /\ \A k \in 1..Len(s) : s[k] = t[k]

C10_ExceptionStep ==
    (log' # log /\ log'[Len(log')] \in PermuteErrors) =>
        /\ pc' = "done"
        /\ exit_code' = 0
        /\ out_state' = out_state
        /\ pc \notin {"cols_open", "rows_open"} => out_state' = "truncated"
        /\ IsPrefix(out, out')
        /\ \A k \in 1..Len(log') : log'[k] \notin {"info_columns_ok", "info_rows_ok"}

C10_ExceptionsAreSwallowed ==
    /\ [](PermuteFailed => pc = "done" /\ exit_code = 0)
    /\ [][C10_ExceptionStep]_vars

C10_Witness ==
    /\ PermuteFailed
    /\ pc = "done"
    /\ exit_code = 0
    /\ out_state = "truncated"
    /\ Len(out) >= 2

====
